---- MODULE Spec2Model ----
(***************************************************************************)
(* Model of the frame recording pipeline of src/src/saveimages.cpp:        *)
(* SaveImages (the facade), WriterThreadWorker (queue owner and consumer   *)
(* loop), RecordingInformation (metadata sidecar), the QThread that runs   *)
(* the consumer loop and the thread pool that runs the submit tasks.       *)
(*                                                                         *)
(* Three regions of execution are modelled:                                *)
(*  - the caller of SaveImages (startRecording, endRecording, handle),     *)
(*    each call one atomic action;                                         *)
(*  - the pool tasks created by QtConcurrent::run, one per dispatched      *)
(*    frame, each executing WriterThreadWorker::handle in separate steps   *)
(*    (no lock is taken in the source, so the steps of two tasks           *)
(*    interleave);                                                         *)
(*  - the recording thread, which emits started(), runs the connected      *)
(*    run() slots one after the other, and emits finished().               *)
(***************************************************************************)
EXTENDS Integers, Sequences, FiniteSets, TLC

\* ---------------------------------------------------------------- bounds
\* number of startRecording() and SaveImages::handle() calls together
\* (frames are numbered 1, 2, ... in the order of the handle calls)
MaxCalls == 3
\* number of submit tasks that are in the thread pool at the same time
MaxTasks == 2

\* byte sizes of a frame (imageData.total() * imageData.elemSize())
FrameSizes == {1, 2}
\* configuration.max_memory_usage()
MemoryBudgets == {1, 2}
\* configuration.recording_frames_limit(); 0 means no ceiling
FrameLimits == {0, 1, 2}

\* milliseconds between the construction of a RecordingInformation and
\* its set_ended call
ElapsedMs == {0, 999, 2500}

\* std::numeric_limits<long long>().max(); the value is 2^63-1 in the
\* source, represented by the largest integer of the checker: only its
\* order against the frame counter is used.
numeric_limits_max == 2147483647

VARIABLES
  configuration,       \* SaveImages::Private::configuration
  is_recording,        \* SaveImages::Private::is_recording
  worker,              \* SaveImages::Private::worker, 0 is nullptr
  workers,             \* every WriterThreadWorker ever created, by id
  recordingThread,     \* SaveImages::Private::recordingThread
  finishedConnections, \* connections QThread::finished -> SaveImages::finished
  pool,                \* tasks of QtConcurrent::run not yet completed
  nHandle,             \* calls of SaveImages::handle so far
  nStart,              \* calls of SaveImages::startRecording so far
  finishedEvents,      \* emissions of SaveImages::finished so far
  useAfterFree         \* a submit task has run on a deleted worker

vars == <<configuration, is_recording, worker, workers, recordingThread,
          finishedConnections,
          pool, nHandle, nStart, finishedEvents, useAfterFree>>

\* ------------------------------------------------------------ the queue
\* shared_ptr<boost::lockfree::spsc_queue<cv::Mat>> framesQueue: null until
\* the first submit; spsc_queue(n) holds at most n elements.
NullQueue == [allocated |-> FALSE, capacity |-> 0, items |-> <<>>]

\* max_memory/imageDataSize: integer division of the budget by the byte
\* size of the frame that allocates the queue
QueueCapacity(max_memory, imageDataSize) == max_memory \div imageDataSize

make_queue(max_memory, imageDataSize) ==
  [allocated |-> TRUE,
   capacity  |-> QueueCapacity(max_memory, imageDataSize),
   items     |-> <<>>]

\* spsc_queue::push: fails at once when the queue holds capacity elements
push_ok(q) == Len(q.items) < q.capacity
push(q, f) == [q EXCEPT !.items = Append(@, f)]

\* spsc_queue::pop: fails at once when the queue is empty
pop_ok(q) == q.allocated /\ Len(q.items) > 0

\* ------------------------------------------------- RecordingInformation
\* QDateTime::secsTo: the whole seconds of the time between two instants
secsTo(elapsed_ms) == elapsed_ms \div 1000

\* a quotient truncated to an integer, as without the casts to double
integer_division(a, b) ==
  IF b # 0 THEN [kind |-> "finite", num |-> a \div b, den |-> 1]
  ELSE [kind |-> "nan", num |-> 0, den |-> 0]

\* static_cast<double>(a) / static_cast<double>(b) for a >= 0, b >= 0: the
\* exact quotient num/den, and the IEEE results of a division by zero
double_division(a, b) ==
  IF b # 0 THEN [kind |-> "finite", num |-> a, den |-> b]
  ELSE IF a # 0 THEN [kind |-> "inf", num |-> 0, den |-> 0]
  ELSE [kind |-> "nan", num |-> 0, den |-> 0]

\* properties["mean-fps"] before set_ended
NoMeanFps == [kind |-> "unset", num |-> 0, den |-> 0]

\* --------------------------------------------------------- the workers
\* recording_frames_limit() == 0 ? numeric_limits<long long>().max() : limit
FrameCeiling(limit) == IF limit = 0 THEN numeric_limits_max ELSE limit

\* RecordingInformation of a worker: "null" (no object), "created"
\* (constructed, filename empty), "named" (set_base_filename called),
\* "ended" (set_ended called after set_base_filename)
NewWorker(limit, memory, save_info_file) ==
  [alive        |-> TRUE,
   max_frames   |-> FrameCeiling(limit),
   max_memory   |-> memory,
   framesQueue  |-> NullQueue,
   dropped_frames |-> 0,
   recording_information |-> IF save_info_file THEN "created" ELSE "null",
   \* position and locals of run()
   pc           |-> "init",
   frames       |-> 0,
   frame        |-> 0,
   \* properties of the RecordingInformation written by set_ended, and
   \* the time it measured
   total_frames |-> 0,
   mean_fps     |-> NoMeanFps,
   elapsed_ms   |-> 0,
   \* history of the session
   save_info    |-> save_info_file,
   end_requested |-> FALSE,
   dispatched   |-> 0,
   accepted     |-> 0,
   \* capacity of the first queue constructed, -1 before
   first_capacity |-> -1,
   droppedEvents |-> <<>>,
   written      |-> <<>>,
   savedEvents  |-> 0,
   savedValues  |-> <<>>,
   recordingEvents |-> 0,
   finishedByRun |-> 0,
   sidecarWrites |-> 0,
   sidecarOpenFailed |-> FALSE,
   sidecarTouchedAfterWrite |-> FALSE]

WorkerIds == 1..Len(workers)
Alive == {w \in WorkerIds : workers[w].alive}

\* the settings read by startRecording: savefile().isEmpty(),
\* save_info_file(), recording_frames_limit(), max_memory_usage()
Configurations ==
  [savefile_empty : BOOLEAN, save_info_file : BOOLEAN,
   recording_frames_limit : FrameLimits, max_memory_usage : MemoryBudgets]

Init ==
  /\ configuration \in Configurations
  /\ is_recording = FALSE
  /\ worker = 0
  /\ workers = <<>>
  /\ recordingThread = [state |-> "stopped", runList |-> <<>>]
  /\ finishedConnections = 0
  /\ pool = {}
  /\ nHandle = 0
  /\ nStart = 0
  /\ finishedEvents = 0
  /\ useAfterFree = FALSE

\* ------------------------------------------------------- the facade
\* a factory looked up without the test of the save file
writerFactory_unchecked(c) == TRUE

\* SaveImages::Private::writerFactory: empty when the save file is empty
writerFactory(c) == ~c.savefile_empty

\* QThread::start: starts a thread that is not running, and does nothing
\* on a thread that is running
QThread_start(t) ==
  IF t.state = "stopped" THEN [state |-> "starting", runList |-> <<>>] ELSE t

\* SaveImages::startRecording
startRecording ==
  /\ nStart + nHandle < MaxCalls
  /\ nStart' = nStart + 1
  /\ UNCHANGED configuration
  /\ IF writerFactory(configuration)
       THEN /\ workers' = Append(workers,
                             NewWorker(configuration.recording_frames_limit,
                                       configuration.max_memory_usage,
                                       configuration.save_info_file))
            /\ worker' = Len(workers) + 1
            /\ finishedConnections' = finishedConnections + 1
            /\ is_recording' = TRUE
            /\ recordingThread' = QThread_start(recordingThread)
            /\ UNCHANGED <<pool, nHandle, finishedEvents, useAfterFree>>
       ELSE UNCHANGED <<is_recording, worker, workers, recordingThread,
                        finishedConnections, pool, nHandle, finishedEvents,
                        useAfterFree>>

\* SaveImages::endRecording
endRecording ==
  /\ is_recording' = FALSE
  /\ workers' = IF worker \in WorkerIds
                THEN [workers EXCEPT ![worker].end_requested = TRUE]
                ELSE workers
  /\ UNCHANGED <<configuration, worker, recordingThread, finishedConnections,
                 pool,
                 nHandle, nStart, finishedEvents, useAfterFree>>

\* a handle that dispatches whether or not a session is active
handle_guard_absent(recording) == TRUE

\* the guard of SaveImages::handle
handle_guard(recording) == recording

\* SaveImages::handle: frame nHandle+1 of byte size imageDataSize arrives
SaveImages_handle ==
  /\ nStart + nHandle < MaxCalls
  /\ nHandle' = nHandle + 1
  /\ \E imageDataSize \in FrameSizes :
       IF handle_guard(is_recording)
       THEN /\ Cardinality(pool) < MaxTasks
            /\ pool' = pool \cup {[frame |-> nHandle + 1, size |-> imageDataSize,
                                   w |-> worker, pc |-> "check", count |-> 0]}
            /\ workers' = IF worker \in WorkerIds
                          THEN [workers EXCEPT ![worker].dispatched = @ + 1]
                          ELSE workers
            /\ UNCHANGED <<configuration, is_recording, worker, recordingThread,
                           finishedConnections, nStart, finishedEvents,
                           useAfterFree>>
       ELSE UNCHANGED <<configuration, is_recording, worker, workers,
                        recordingThread,
                        finishedConnections, pool, nStart, finishedEvents,
                        useAfterFree>>

\* ------------------------------------------- WriterThreadWorker::handle
\* the steps of one pool task t; nothing orders the steps of two tasks

\* if(!framesQueue); imageDataSize is used by the allocation only and is
\* dropped from the task once the test has found a queue
WriterThreadWorker_handle_check ==
  \E t \in pool :
    /\ t.pc = "check"
    /\ t.w \in Alive
    /\ pool' = (pool \ {t}) \cup
               {IF workers[t.w].framesQueue.allocated
                THEN [t EXCEPT !.pc = "push", !.size = 0]
                ELSE [t EXCEPT !.pc = "alloc"]}
    /\ UNCHANGED <<configuration, is_recording, worker, workers,
                   recordingThread,
                   finishedConnections, nHandle, nStart, finishedEvents,
                   useAfterFree>>

\* framesQueue = make_shared<spsc_queue>(max_memory/imageDataSize)
WriterThreadWorker_handle_alloc ==
  \E t \in pool :
    /\ t.pc = "alloc"
    /\ t.w \in Alive
    /\ workers' = [workers EXCEPT
                     ![t.w].framesQueue =
                       make_queue(workers[t.w].max_memory, t.size),
                     ![t.w].first_capacity =
                       IF workers[t.w].framesQueue.allocated THEN @
                       ELSE QueueCapacity(workers[t.w].max_memory, t.size)]
    /\ pool' = (pool \ {t}) \cup {[t EXCEPT !.pc = "push", !.size = 0]}
    /\ UNCHANGED <<configuration, is_recording, worker, recordingThread,
                   finishedConnections,
                   nHandle, nStart, finishedEvents, useAfterFree>>

\* if(!framesQueue->push(imageData)): an accepted frame ends the task, a
\* rejected one reads dropped_frames for the increment
WriterThreadWorker_handle_push ==
  \E t \in pool :
    /\ t.pc = "push"
    /\ t.w \in Alive
    /\ IF push_ok(workers[t.w].framesQueue)
       THEN /\ workers' = [workers EXCEPT
                             ![t.w].framesQueue = push(@, t.frame),
                             ![t.w].accepted = @ + 1]
            /\ pool' = pool \ {t}
       ELSE /\ pool' = (pool \ {t}) \cup
                       {[t EXCEPT !.pc = "drop",
                                  !.count = workers[t.w].dropped_frames]}
            /\ UNCHANGED workers
    /\ UNCHANGED <<configuration, is_recording, worker, recordingThread,
                   finishedConnections,
                   nHandle, nStart, finishedEvents, useAfterFree>>

\* emit saveImages->droppedFrames(++dropped_frames)
WriterThreadWorker_handle_drop ==
  \E t \in pool :
    /\ t.pc = "drop"
    /\ t.w \in Alive
    /\ workers' = [workers EXCEPT
                     ![t.w].dropped_frames = t.count + 1,
                     ![t.w].droppedEvents = Append(@, t.count + 1)]
    /\ pool' = pool \ {t}
    /\ UNCHANGED <<configuration, is_recording, worker, recordingThread,
                   finishedConnections,
                   nHandle, nStart, finishedEvents, useAfterFree>>

\* a task bound to a worker that deleteLater has destroyed: the access to
\* the freed object is undefined, the task has no defined effect
WriterThreadWorker_handle_dangling ==
  \E t \in pool :
    /\ t.w \notin Alive
    /\ useAfterFree' = TRUE
    /\ pool' = pool \ {t}
    /\ UNCHANGED <<configuration, is_recording, worker, workers,
                   recordingThread,
                   finishedConnections, nHandle, nStart, finishedEvents>>

\* ---------------------------------------------- the recording thread
\* QThread::started is emitted in the new thread: the run() slots of the
\* workers connected at that moment are called one after the other
QThread_started ==
  /\ recordingThread.state = "starting"
  /\ recordingThread' =
       [state |-> "running",
        runList |-> SelectSeq([i \in 1..Len(workers) |-> i],
                              LAMBDA w : workers[w].alive)]
  /\ UNCHANGED <<configuration, is_recording, worker, workers,
                 finishedConnections, pool,
                 nHandle, nStart, finishedEvents, useAfterFree>>

Running(w) ==
  /\ recordingThread.state = "running"
  /\ recordingThread.runList # <<>>
  /\ Head(recordingThread.runList) = w

\* RecordingInformation::set_base_filename
set_base_filename(info) == IF info = "null" THEN "null" ELSE "named"

\* run(), up to the loop: the writer is created, the sidecar is named and
\* recording(filename) is emitted
WriterThreadWorker_run_begin ==
  \E w \in WorkerIds :
    /\ Running(w)
    /\ workers[w].pc = "init"
    /\ workers' = [workers EXCEPT
                     ![w].recording_information = set_base_filename(@),
                     ![w].recordingEvents = @ + 1,
                     ![w].frames = 0,
                     ![w].pc = "loop"]
    /\ UNCHANGED <<configuration, is_recording, worker, recordingThread,
                   finishedConnections,
                   pool, nHandle, nStart, finishedEvents, useAfterFree>>

\* a loop test that lets one frame more through
loop_condition_inclusive(recording, frames, max_frames) ==
  recording /\ frames <= max_frames

\* while(is_recording && frames < max_frames)
loop_condition(recording, frames, max_frames) ==
  recording /\ frames < max_frames

\* one turn of the loop up to the pop: the test of the loop, then
\* if(framesQueue && framesQueue->pop(frame)) ... else QThread::msleep(1),
\* which leaves the worker at the test again
WriterThreadWorker_run_loop ==
  \E w \in WorkerIds :
    /\ Running(w)
    /\ workers[w].pc = "loop"
    /\ IF loop_condition(is_recording, workers[w].frames, workers[w].max_frames)
       THEN IF pop_ok(workers[w].framesQueue)
            THEN workers' = [workers EXCEPT
                               ![w].frame = Head(workers[w].framesQueue.items),
                               ![w].framesQueue.items = Tail(@),
                               ![w].pc = "write"]
            ELSE UNCHANGED workers
       ELSE workers' = [workers EXCEPT ![w].pc = "clear"]
    /\ UNCHANGED <<configuration, is_recording, worker, recordingThread,
                   finishedConnections,
                   pool, nHandle, nStart, finishedEvents, useAfterFree>>

\* fileWriter->handle(frame); emit savedFrames(++frames)
WriterThreadWorker_run_write ==
  \E w \in WorkerIds :
    /\ Running(w)
    /\ workers[w].pc = "write"
    /\ workers' = [workers EXCEPT
                     ![w].written = Append(@, workers[w].frame),
                     ![w].frames = @ + 1,
                     ![w].savedEvents = @ + 1,
                     ![w].savedValues = Append(@, workers[w].frames + 1),
                     ![w].frame = 0,
                     ![w].pc = "loop"]
    /\ UNCHANGED <<configuration, is_recording, worker, recordingThread,
                   finishedConnections,
                   pool, nHandle, nStart, finishedEvents, useAfterFree>>

\* a run() that does not finalize the record
set_ended_skipped(info) == info

\* RecordingInformation::set_ended
set_ended(info) == IF info = "null" THEN "null" ELSE "ended"

\* the properties set by set_ended(total_frames, width, height) called
\* elapsed_ms after the construction; nothing without a record
set_ended_properties(wr, frames, ms) ==
  IF wr.recording_information = "null" THEN wr
  ELSE [wr EXCEPT !.total_frames = frames,
                  !.elapsed_ms = ms,
                  !.mean_fps = double_division(frames, secsTo(ms))]

\* an end of run() that first flushes what the queue still holds
WriterThreadWorker_run_clear_flush ==
  \E w \in WorkerIds :
    /\ Running(w)
    /\ workers[w].pc = "clear"
    /\ IF pop_ok(workers[w].framesQueue)
       THEN /\ workers' = [workers EXCEPT
                             ![w].written =
                                Append(@, Head(workers[w].framesQueue.items)),
                             ![w].framesQueue.items = Tail(@)]
            /\ UNCHANGED is_recording
       ELSE /\ is_recording' = FALSE
            /\ workers' = [workers EXCEPT
                             ![w].recording_information = set_ended(@),
                             ![w].pc = "finish"]
    /\ UNCHANGED <<configuration, worker, recordingThread, finishedConnections,
                   pool, nHandle, nStart, finishedEvents, useAfterFree>>

\* is_recording = false; if(recording_information) set_ended(...)
WriterThreadWorker_run_clear ==
  \E w \in WorkerIds :
    /\ Running(w)
    /\ workers[w].pc = "clear"
    /\ is_recording' = FALSE
    /\ \E ms \in ElapsedMs :
         workers' = [workers EXCEPT
                       ![w] = [set_ended_properties(@, workers[w].frames, ms)
                                 EXCEPT
                                 !.recording_information = set_ended(@),
                                 !.sidecarTouchedAfterWrite =
                                    @ \/ (workers[w].sidecarWrites > 0
                                          /\ workers[w].recording_information
                                                # "null"),
                                 !.pc = "finish"]]
    /\ UNCHANGED <<configuration, worker, recordingThread,
                   finishedConnections, pool, nHandle,
                   nStart, finishedEvents, useAfterFree>>

\* a destructor without the test of the empty filename
destructor_writes_unnamed(info, open_ok) ==
  IF info # "null" /\ open_ok THEN 1 ELSE 0

\* RecordingInformation::~RecordingInformation: the number of files written,
\* none when the filename is empty or the file cannot be opened
destructor_writes(info, open_ok) ==
  IF info \in {"named", "ended"} /\ open_ok THEN 1 ELSE 0

\* the destructor found a filename and could not open the file
destructor_open_failed(info, open_ok) ==
  info \in {"named", "ended"} /\ ~open_ok

\* the worker record once its RecordingInformation is destroyed: the file
\* is written or not, and the properties are gone with the object
destroy_recording_information(wr, open_ok) ==
  [wr EXCEPT
     !.sidecarWrites = @ + destructor_writes(wr.recording_information, open_ok),
     !.sidecarOpenFailed =
        @ \/ destructor_open_failed(wr.recording_information, open_ok),
     !.total_frames = 0,
     !.mean_fps = NoMeanFps,
     !.elapsed_ms = 0,
     !.recording_information = "null"]

\* emit saveImages->finished(); recording_information.reset();
\* QThread::currentThread()->quit(); and run() returns
WriterThreadWorker_run_finish ==
  \E w \in WorkerIds :
    /\ Running(w)
    /\ workers[w].pc = "finish"
    /\ finishedEvents' = finishedEvents + 1
    /\ \E open_ok \in BOOLEAN :
         workers' = [workers EXCEPT
                       ![w] = [destroy_recording_information(@, open_ok) EXCEPT
                                 !.finishedByRun = @ + 1,
                                 !.pc = "done"]]
    /\ recordingThread' = [recordingThread EXCEPT !.runList = Tail(@)]
    /\ UNCHANGED <<configuration, is_recording, worker, finishedConnections,
                   pool, nHandle,
                   nStart, useAfterFree>>

\* the number of SaveImages::finished emissions made by the end of the
\* thread: one per connection made by startRecording
finished_emissions(connections) == connections

\* the thread leaves its event loop: QThread::finished is emitted to every
\* connection (SaveImages::finished and deleteLater of each worker) and
\* the deferred deletions run; a worker destroyed with its
\* RecordingInformation destroys that record too
QThread_finished ==
  /\ recordingThread.state = "running"
  /\ recordingThread.runList = <<>>
  /\ finishedEvents' = finishedEvents + finished_emissions(finishedConnections)
  /\ \E open_ok \in BOOLEAN :
       workers' = [w \in 1..Len(workers) |->
                     IF workers[w].alive
                     THEN [destroy_recording_information(workers[w], open_ok)
                             EXCEPT !.alive = FALSE]
                     ELSE workers[w]]
  /\ recordingThread' = [state |-> "stopped", runList |-> <<>>]
  /\ UNCHANGED <<configuration, is_recording, worker, finishedConnections,
                 pool, nHandle,
                 nStart, useAfterFree>>

\* ------------------------------------------------------ specification
PoolStep ==
  \/ WriterThreadWorker_handle_check
  \/ WriterThreadWorker_handle_alloc
  \/ WriterThreadWorker_handle_push
  \/ WriterThreadWorker_handle_drop
  \/ WriterThreadWorker_handle_dangling

ThreadStep ==
  \/ QThread_started
  \/ WriterThreadWorker_run_begin
  \/ WriterThreadWorker_run_loop
  \/ WriterThreadWorker_run_write
  \/ WriterThreadWorker_run_clear
  \/ WriterThreadWorker_run_finish
  \/ QThread_finished

Next ==
  \/ startRecording
  \/ endRecording
  \/ SaveImages_handle
  \/ PoolStep
  \/ ThreadStep

Spec == Init /\ [][Next]_vars

\* the recording thread and the pool threads are scheduled by the
\* operating system: a step that stays possible is eventually taken
FairSpec == Spec /\ WF_vars(ThreadStep) /\ WF_vars(PoolStep)

TypeOK ==
  /\ is_recording \in BOOLEAN
  /\ worker \in 0..Len(workers)
  /\ Len(workers) <= nStart
  /\ nHandle \in 0..MaxCalls
  /\ nStart \in 0..MaxCalls
  /\ nStart + nHandle <= MaxCalls
  /\ Cardinality(pool) <= MaxTasks

\* ------------------------------------------------------------- helpers
\* the pool tasks bound to worker w
TasksOf(w) == {t \in pool : t.w = w}

\* the sequence 1, 2, ..., n
CountUp(n) == [i \in 1..n |-> i]

\* frames are numbered in the order of the SaveImages::handle calls
InSubmissionOrder(s) ==
  \A i, j \in 1..Len(s) : i < j => s[i] < s[j]

RECURSIVE SumDispatched(_)
SumDispatched(n) ==
  IF n = 0 THEN 0 ELSE workers[n].dispatched + SumDispatched(n - 1)

\* the consumer of w has popped nothing so far
NeverPopped(w) == workers[w].frames = 0 /\ workers[w].frame = 0

HasCeiling(w) == workers[w].max_frames < numeric_limits_max

\* the positions of run() after the loop
AfterLoop == {"clear", "finish", "done"}

\* ---------------------------------------------------------------- C1
\* C1: when N frames have been submitted to the handle of a live session
\* whose queue has capacity C < N and whose consumer has popped nothing,
\* and every submit task has completed, exactly C frames were accepted
\* and the droppedFrames events carried 1, 2, ..., N-C in that order.
C1_DropAccounting ==
  \A w \in WorkerIds :
    ( /\ workers[w].alive
      /\ workers[w].framesQueue.allocated
      /\ TasksOf(w) = {}
      /\ NeverPopped(w)
      /\ workers[w].dispatched > workers[w].framesQueue.capacity )
    => /\ workers[w].accepted = workers[w].framesQueue.capacity
       /\ workers[w].droppedEvents =
            CountUp(workers[w].dispatched - workers[w].framesQueue.capacity)

\* ---------------------------------------------------------------- C2
\* C2: in a session in which no push found the queue full, no frame is
\* dropped, the frames reach the writer in the order of their submission
\* to SaveImages::handle, and once nothing is in flight (no task, empty
\* queue, no frame in hand) while the loop is still running, the number of
\* savedFrames events equals the number of frames passed to handle.
C2_LosslessInOrder ==
  \A w \in WorkerIds :
    ( workers[w].alive /\ workers[w].droppedEvents = <<>>
      /\ workers[w].dropped_frames = 0 )
    => /\ InSubmissionOrder(workers[w].written)
       /\ ( /\ TasksOf(w) = {}
            /\ workers[w].framesQueue.items = <<>>
            /\ workers[w].pc = "loop"
            /\ ~workers[w].end_requested )
          => workers[w].savedEvents = workers[w].dispatched

\* ---------------------------------------------------------------- C3
\* C3: the capacity of an allocated queue is the memory budget divided by
\* a frame byte size, rounded down, and is at least 1.
C3_CapacityAtLeastOne ==
  \A w \in WorkerIds :
    workers[w].framesQueue.allocated
    => /\ \E size \in FrameSizes :
            workers[w].framesQueue.capacity = workers[w].max_memory \div size
       /\ workers[w].framesQueue.capacity >= 1

\* ---------------------------------------------------------------- C4
\* C4: the observers of SaveImages never receive more finished events
\* than sessions have been started (at most one finished per session).
C4_OneFinishedPerSession ==
  finishedEvents <= Len(workers)

\* ---------------------------------------------------------------- C5
\* C5: a call of SaveImages::handle made while no session is active
\* changes nothing but the count of calls: no task is dispatched, no
\* queue, counter or event of any worker changes.
C5_HandleIdleNoOp ==
  [][ (nHandle' # nHandle /\ ~is_recording)
      => UNCHANGED <<configuration, is_recording, worker, workers,
                     recordingThread, finishedConnections, pool, nStart,
                     finishedEvents, useAfterFree>> ]_vars

\* a handle call was ignored after a session had been started
C5_Witness ==
  /\ Len(workers) >= 1
  /\ nHandle > SumDispatched(Len(workers))
  /\ ~is_recording

\* ---------------------------------------------------------------- C6
\* C6: a session with a ceiling K > 0 that accepted at least K frames and
\* was not ended by endRecording() has left its loop and emitted finished
\* by the time its worker is torn down.
C6_CeilingTerminates ==
  \A w \in WorkerIds :
    ( /\ HasCeiling(w)
      /\ workers[w].accepted >= workers[w].max_frames
      /\ ~workers[w].end_requested
      /\ ~workers[w].alive )
    => /\ workers[w].pc = "done"
       /\ workers[w].finishedByRun = 1

\* ---------------------------------------------------------------- C7
\* C7: with an empty writer destination every startRecording() leaves the
\* controller as constructed: no worker, no RecordingInformation, the
\* active flag false, the thread not started, no connection, no event.
C7_EmptyDestinationIdle ==
  configuration.savefile_empty
  => /\ workers = <<>>
     /\ worker = 0
     /\ ~is_recording
     /\ recordingThread.state = "stopped"
     /\ finishedConnections = 0
     /\ finishedEvents = 0
     /\ pool = {}

\* startRecording() has been called with an empty destination
C7_Witness ==
  /\ configuration.savefile_empty
  /\ nStart >= 1

\* ---------------------------------------------------------------- C8
\* C8: at most one WriterThreadWorker is alive, and none while the
\* controller is idle (flag false, thread stopped).
C8_OneSession ==
  /\ Cardinality(Alive) <= 1
  /\ (~is_recording /\ recordingThread.state = "stopped") => Alive = {}

\* ---------------------------------------------------------------- C9
\* C9: once run() has left its loop nothing more is popped or written,
\* whatever the queue still holds; and a frame in hand is written by the
\* next step of the worker whatever the flag has become.
C9_NoFlushOnStop ==
  [][ \A w \in WorkerIds :
        /\ workers[w].pc \in AfterLoop
           => /\ workers'[w].written = workers[w].written
              /\ workers'[w].frame = 0
              /\ workers'[w].frames = workers[w].frames
              /\ workers'[w].pc \in AfterLoop
        /\ (workers[w].pc = "write" /\ workers'[w].pc # "write")
           => workers'[w].written = Append(workers[w].written, workers[w].frame)
    ]_vars

\* a worker has left its loop with a frame written and a frame still queued
C9_Witness ==
  \E w \in WorkerIds :
    /\ workers[w].pc \in AfterLoop
    /\ Len(workers[w].written) >= 1
    /\ workers[w].framesQueue.items # <<>>

\* --------------------------------------------------------------- C10
\* C10 as stated: the sidecar of a session is written exactly once iff
\* persistence was enabled and run() set the filename, at the end of the
\* session; and never touched after it was written.
C10_SidecarIff ==
  \A w \in WorkerIds :
    /\ workers[w].sidecarWrites <= 1
    /\ ~workers[w].sidecarTouchedAfterWrite
    /\ (workers[w].pc = "done")
       => (workers[w].sidecarWrites = 1 <=> workers[w].save_info)
    /\ (workers[w].pc # "done") => workers[w].sidecarWrites = 0

\* C10 amended: the sidecar is written exactly once, when run() releases
\* the record, iff persistence was enabled, run() set the filename and the
\* file could be opened; otherwise nothing is written; the record is never
\* touched after it was written.
C10_SidecarIffOpened ==
  \A w \in WorkerIds :
    /\ workers[w].sidecarWrites <= 1
    /\ ~workers[w].sidecarTouchedAfterWrite
    /\ (workers[w].pc = "done")
       => (workers[w].sidecarWrites = 1
             <=> (workers[w].save_info /\ ~workers[w].sidecarOpenFailed))
    /\ (workers[w].pc # "done") => workers[w].sidecarWrites = 0
    /\ workers[w].sidecarOpenFailed => workers[w].save_info

\* a sidecar has been written, and a worker with a RecordingInformation
\* has been destroyed without having run
C10_Witness ==
  /\ \E w \in WorkerIds : workers[w].sidecarWrites = 1
  /\ \E w \in WorkerIds :
       /\ workers[w].save_info /\ ~workers[w].alive /\ workers[w].pc = "init"

\* --------------------------------------------------------------- C11
\* C11: the mean-fps stored by set_ended is the exact quotient of the
\* frames handed to the writer in the session by the whole seconds e
\* between construction and finalization (e*1000 <= elapsed < (e+1)*1000),
\* wherever that quotient exists (e > 0); total-frames is that number of
\* frames.
C11_MeanFps ==
  \A w \in WorkerIds :
    workers[w].recording_information = "ended"
    => /\ workers[w].total_frames = Len(workers[w].written)
       /\ \A e \in 1..3 :
            ( e * 1000 <= workers[w].elapsed_ms
              /\ workers[w].elapsed_ms < (e + 1) * 1000 )
            => /\ workers[w].mean_fps.kind = "finite"
               /\ workers[w].mean_fps.den # 0
               /\ workers[w].mean_fps.num * e
                    = Len(workers[w].written) * workers[w].mean_fps.den

\* a record finalized after a frame was written and more than a second
\* had passed
C11_Witness ==
  \E w \in WorkerIds :
    /\ workers[w].recording_information = "ended"
    /\ workers[w].elapsed_ms >= 1000
    /\ Len(workers[w].written) >= 1

\* --------------------------------------------------------------- C12
\* C12: at most one execution of WriterThreadWorker::handle is under way
\* on a worker (a task that has passed the test of framesQueue and has not
\* completed).
C12_SingleProducer ==
  \A w \in WorkerIds :
    Cardinality({t \in TasksOf(w) : t.pc # "check"}) <= 1

\* --------------------------------------------------------------- C13
\* C13: once the queue of a worker is allocated it stays the same object:
\* its capacity never changes and its content changes only by the push of
\* one frame at the back or the pop of the frame at the front.
C13_QueueAllocatedOnce ==
  [][ \A w \in WorkerIds :
        workers[w].framesQueue.allocated
        => /\ workers'[w].framesQueue.allocated
           /\ workers'[w].framesQueue.capacity
                = workers[w].framesQueue.capacity
           /\ \/ workers'[w].framesQueue.items = workers[w].framesQueue.items
              \/ /\ workers[w].framesQueue.items # <<>>
                 /\ workers'[w].framesQueue.items
                      = Tail(workers[w].framesQueue.items)
                 /\ workers'[w].frame = Head(workers[w].framesQueue.items)
              \/ /\ Len(workers'[w].framesQueue.items)
                      = Len(workers[w].framesQueue.items) + 1
                 /\ SubSeq(workers'[w].framesQueue.items, 1,
                           Len(workers[w].framesQueue.items))
                      = workers[w].framesQueue.items
    ]_vars

\* --------------------------------------------------------------- C14
\* C14: no worker is torn down before its run() has begun and emitted the
\* recording-started event.
C14_EveryStartRuns ==
  \A w \in WorkerIds :
    ~workers[w].alive => workers[w].recordingEvents >= 1

\* --------------------------------------------------------------- C15
\* C15: the queue of a worker never holds more frames than the capacity
\* computed when its queue was first constructed.
C15_QueueBounded ==
  \A w \in WorkerIds :
    workers[w].framesQueue.allocated
    => Len(workers[w].framesQueue.items) <= workers[w].first_capacity

\* --------------------------------------------------------------- C16
\* C16: in one session recording-started is emitted once and before any
\* frame-saved event; the record is finalized with the final frame count
\* after the last frame-saved event and before finished; nothing of the
\* session is emitted after its finished event.
C16_EventOrder ==
  [][ \A w \in WorkerIds :
        /\ workers'[w].recordingEvents # workers[w].recordingEvents
           => /\ workers[w].recordingEvents = 0
              /\ workers[w].savedEvents = 0
              /\ workers[w].finishedByRun = 0
        /\ workers'[w].savedEvents # workers[w].savedEvents
           => /\ workers[w].recordingEvents = 1
              /\ workers[w].finishedByRun = 0
              /\ workers[w].recording_information # "ended"
        /\ workers'[w].finishedByRun # workers[w].finishedByRun
           => /\ workers[w].finishedByRun = 0
              /\ workers[w].recordingEvents = 1
              /\ workers[w].save_info
                 => /\ workers[w].recording_information = "ended"
                    /\ workers[w].total_frames = workers[w].savedEvents
    ]_vars

\* a session with metadata has saved a frame and emitted finished
C16_Witness ==
  \E w \in WorkerIds :
    /\ workers[w].save_info
    /\ workers[w].savedEvents >= 1
    /\ workers[w].finishedByRun = 1

\* --------------------------------------------------------------- C17
\* C17: the frames-written counter never exceeds the ceiling, the
\* savedFrames events carry 1, 2, ..., k with one event per written frame,
\* and with a configured ceiling of 0 the counter stays below the ceiling.
C17_CounterAndCeiling ==
  \A w \in WorkerIds :
    /\ workers[w].frames <= workers[w].max_frames
    /\ workers[w].savedValues = CountUp(Len(workers[w].written))
    /\ workers[w].frames = Len(workers[w].written)
    /\ configuration.recording_frames_limit = 0
       => workers[w].frames < workers[w].max_frames

\* a session left its loop at the ceiling, without endRecording
C17_Witness ==
  \E w \in WorkerIds :
    /\ HasCeiling(w)
    /\ workers[w].frames = workers[w].max_frames
    /\ workers[w].pc \in AfterLoop
    /\ ~workers[w].end_requested

\* --------------------------------------------------------------- C18
\* C18: a finalized record holds a defined (finite) mean FPS, also when
\* the elapsed whole seconds are 0.
C18_MeanFpsDefined ==
  \A w \in WorkerIds :
    workers[w].recording_information = "ended"
    => workers[w].mean_fps.kind = "finite"

\* --------------------------------------------------------------- C19
\* C19: no submit task runs on a worker that has been deleted.
C19_NoTaskOnDeadWorker ==
  ~useAfterFree

\* --------------------------------------------------------------- C20
\* C20: for a live worker the frames dispatched to it are the frames of
\* its pending tasks, the written frames, the frames counted as dropped,
\* the queued frames and the frame in hand; no frame is written twice.
C20_FrameConservation ==
  \A w \in Alive :
    /\ workers[w].dispatched
         = Cardinality(TasksOf(w)) + Len(workers[w].written)
           + workers[w].dropped_frames
           + Len(workers[w].framesQueue.items)
           + (IF workers[w].frame # 0 THEN 1 ELSE 0)
    /\ \A i, j \in 1..Len(workers[w].written) :
         i # j => workers[w].written[i] # workers[w].written[j]
====
